---- MODULE Spec2Model ----
(***************************************************************************)
(* EventWise: the relational store of server/models.py (events, sessions,  *)
(* speakers, bios and the session_speakers join table, kept in SQLite      *)
(* through SQLAlchemy's ORM) and the five read-only request handlers of    *)
(* server/app.py.                                                          *)
(*                                                                         *)
(* A table is a function from the primary keys of its rows to the rows.    *)
(* A write is one unit of work: db.session.add / delete followed by        *)
(* db.session.commit(), with the cascades the relationships declare.       *)
(* SQLite enforces NOT NULL, UNIQUE and PRIMARY KEY; it does not enforce   *)
(* FOREIGN KEY clauses unless "PRAGMA foreign_keys = ON" is issued on the   *)
(* connection, which nothing in server/app.py or server/models.py does.    *)
(***************************************************************************)
EXTENDS Integers, Sequences, FiniteSets, TLC

VARIABLES events, sessions, speakers, bios, session_speakers, request, response

store == <<events, sessions, speakers, bios, session_speakers>>
vars == <<events, sessions, speakers, bios, session_speakers, request, response>>

(***************************************************************************)
(* Bounds of the model.                                                    *)
(***************************************************************************)
MaxEvents == 2
MaxSessions == 2
MaxSpeakers == 2
MaxBios == 2
MaxRows == 7

(***************************************************************************)
(* Values.  A Python None given for a column is None; a value v is         *)
(* Some(v).  Stored columns are all NOT NULL and hold plain values.        *)
(***************************************************************************)
None == <<>>
Some(v) == <<v>>
Val(o) == o[1]

EventNames == {"Tech Summit"}
Locations == {"San Francisco"}
Titles == {"ML Basics"}
SpeakerNames == {"Jane Smith"}
\* A text, the empty text, and a text that reads like the fallback of app.py.
BioTexts == {"Jane is an AI expert", "", "No bio available"}

DateTime(y, mo, d, h, mi, s, us) ==
  [year |-> y, month |-> mo, day |-> d, hour |-> h, minute |-> mi,
   second |-> s, microsecond |-> us]
StartTimes == {DateTime(2024, 6, 15, 9, 0, 0, 0), DateTime(2024, 7, 20, 10, 30, 5, 1500)}

(***************************************************************************)
(* datetime.isoformat(): YYYY-MM-DDTHH:MM:SS, followed by .ffffff when the *)
(* microsecond field is not 0.  The result is the sequence of characters.  *)
(***************************************************************************)
DigitChar(d) == <<"0", "1", "2", "3", "4", "5", "6", "7", "8", "9">>[d + 1]

RECURSIVE Digits(_, _)
Digits(n, width) ==
  IF width = 0 THEN <<>>
  ELSE Append(Digits(n \div 10, width - 1), DigitChar(n % 10))

isoformat(dt) ==
  Digits(dt.year, 4) \o <<"-">> \o Digits(dt.month, 2) \o <<"-">> \o Digits(dt.day, 2)
    \o <<"T">> \o Digits(dt.hour, 2) \o <<":">> \o Digits(dt.minute, 2)
    \o <<":">> \o Digits(dt.second, 2)
    \o (IF dt.microsecond # 0 THEN <<".">> \o Digits(dt.microsecond, 6) ELSE <<>>)

(***************************************************************************)
(* Storage layer.                                                          *)
(***************************************************************************)
Max(S) == CHOOSE m \in S : \A x \in S : x <= m

\* INTEGER PRIMARY KEY without AUTOINCREMENT: the new rowid is one more than
\* the largest rowid in the table, so the key of a deleted last row is reused.
NextId(table) == IF DOMAIN table = {} THEN 1 ELSE Max(DOMAIN table) + 1

Insert(table, row) == [i \in DOMAIN table \cup {NextId(table)} |->
                         IF i \in DOMAIN table THEN table[i] ELSE row]

Remove(table, ids) == [i \in DOMAIN table \ ids |-> table[i]]

RowCount == Cardinality(DOMAIN events) + Cardinality(DOMAIN sessions)
              + Cardinality(DOMAIN speakers) + Cardinality(DOMAIN bios)
              + Cardinality(session_speakers)

\* The ids of a set of integers in ascending order (the order of a rowid scan).
RECURSIVE Ascending(_)
Ascending(S) ==
  IF S = {} THEN <<>>
  ELSE LET m == Max(S) IN Append(Ascending(S \ {m}), m)

Committed == [status |-> "committed"]
IntegrityError == [status |-> "IntegrityError"]

TypeOK ==
  /\ DOMAIN events \subseteq 1..MaxEvents
  /\ DOMAIN sessions \subseteq 1..MaxSessions
  /\ DOMAIN speakers \subseteq 1..MaxSpeakers
  /\ DOMAIN bios \subseteq 1..MaxBios
  /\ session_speakers \subseteq (1..MaxSessions) \X (1..MaxSpeakers)

Init ==
  /\ events = <<>>
  /\ sessions = <<>>
  /\ speakers = <<>>
  /\ bios = <<>>
  /\ session_speakers = {}
  /\ request = [op |-> "none"]
  /\ response = [status |-> "none"]

(***************************************************************************)
(* Relationships (server/models.py), read from the current rows.           *)
(***************************************************************************)
\* Event.sessions without its join condition: every Session.
Event_sessions_unfiltered(e) == DOMAIN sessions

\* Event.sessions: the Sessions whose event_id is the Event's id.
Event_sessions(e) == {x \in DOMAIN sessions : sessions[x].event_id = e}

\* Session.speakers joined on speaker_id alone: the Speakers of any Session.
Session_speakers_any(x) == {p \in DOMAIN speakers : \E l \in session_speakers : l[2] = p}

\* Session.speakers: the Speakers joined to the Session through session_speakers.
Session_speakers(x) == {p \in DOMAIN speakers : <<x, p>> \in session_speakers}

\* Speaker.sessions: the Sessions joined to the Speaker through session_speakers.
Speaker_sessions(p) == {x \in DOMAIN sessions : <<x, p>> \in session_speakers}

\* Speaker.bio (uselist=False): the Bio rows whose speaker_id is the Speaker's id.
Speaker_bio(p) == {b \in DOMAIN bios : bios[b].speaker_id = p}

\* The join rows the unit of work deletes with a Session / with a Speaker.
SessionLinks(xs) == {l \in session_speakers : l[1] \in xs}
\* The Speaker's join rows are left behind.
SpeakerLinks_kept(p) == {}
SpeakerLinks(p) == {l \in session_speakers : l[2] = p}

\* bios.speaker_id is declared unique=True.
BioUniqueViolated(speaker_id) == \E b \in DOMAIN bios : bios[b].speaker_id = speaker_id

(***************************************************************************)
(* Writes: db.session.add(...) / db.session.delete(...) and commit().      *)
(***************************************************************************)
\* commit() raises IntegrityError and nothing is stored.
Reject(req) ==
  /\ UNCHANGED store
  /\ request' = req
  /\ response' = IntegrityError

Accept(req) ==
  /\ request' = req
  /\ response' = Committed

CreateEvent(name, location) ==
  /\ NextId(events) <= MaxEvents
  /\ RowCount < MaxRows
  /\ events' = Insert(events, [name |-> name, location |-> location])
  /\ UNCHANGED <<sessions, speakers, bios, session_speakers>>
  /\ Accept([op |-> "CreateEvent"])

\* event_id is NOT NULL; its FOREIGN KEY clause is not enforced by the store.
CreateSession(title, start_time, event_id) ==
  /\ NextId(sessions) <= MaxSessions
  /\ RowCount < MaxRows
  /\ IF event_id = None
       THEN Reject([op |-> "CreateSession", event_id |-> event_id])
       ELSE /\ sessions' = Insert(sessions, [title |-> title, start_time |-> start_time,
                                             event_id |-> Val(event_id)])
            /\ UNCHANGED <<events, speakers, bios, session_speakers>>
            /\ Accept([op |-> "CreateSession", event_id |-> event_id])

CreateSpeaker(name) ==
  /\ NextId(speakers) <= MaxSpeakers
  /\ RowCount < MaxRows
  /\ speakers' = Insert(speakers, [name |-> name])
  /\ UNCHANGED <<events, sessions, bios, session_speakers>>
  /\ Accept([op |-> "CreateSpeaker"])

\* bio_text and speaker_id are NOT NULL and speaker_id is UNIQUE; the
\* FOREIGN KEY clause of speaker_id is not enforced by the store.
CreateBio(bio_text, speaker_id) ==
  /\ NextId(bios) <= MaxBios
  /\ RowCount < MaxRows
  /\ IF bio_text = None \/ speaker_id = None
       THEN Reject([op |-> "CreateBio", speaker_id |-> speaker_id])
       ELSE IF BioUniqueViolated(Val(speaker_id))
         THEN Reject([op |-> "CreateBio", speaker_id |-> speaker_id])
         ELSE /\ bios' = Insert(bios, [bio_text |-> Val(bio_text),
                                       speaker_id |-> Val(speaker_id)])
              /\ UNCHANGED <<events, sessions, speakers, session_speakers>>
              /\ Accept([op |-> "CreateBio", speaker_id |-> speaker_id])

\* session.speakers.append(speaker) and commit, for a persistent Session and
\* Speaker that are not yet associated.
AssociateSpeaker(x, p) ==
  /\ x \in DOMAIN sessions
  /\ p \in DOMAIN speakers
  /\ <<x, p>> \notin session_speakers
  /\ RowCount < MaxRows
  /\ session_speakers' = session_speakers \cup {<<x, p>>}
  /\ UNCHANGED <<events, sessions, speakers, bios>>
  /\ Accept([op |-> "AssociateSpeaker"])

\* Event.sessions without a delete cascade: only the events row goes.
DeleteEvent_no_cascade(e) ==
  /\ e \in DOMAIN events
  /\ events' = Remove(events, {e})
  /\ UNCHANGED <<sessions, speakers, bios, session_speakers>>
  /\ Accept([op |-> "DeleteEvent", id |-> e])

\* db.session.delete(event): cascade='all, delete-orphan' on Event.sessions
\* deletes the Event's Sessions, and each deleted Session's join rows go too.
DeleteEvent(e) ==
  /\ e \in DOMAIN events
  /\ events' = Remove(events, {e})
  /\ sessions' = Remove(sessions, Event_sessions(e))
  /\ session_speakers' = session_speakers \ SessionLinks(Event_sessions(e))
  /\ UNCHANGED <<speakers, bios>>
  /\ Accept([op |-> "DeleteEvent", id |-> e])

DeleteSession(x) ==
  /\ x \in DOMAIN sessions
  /\ sessions' = Remove(sessions, {x})
  /\ session_speakers' = session_speakers \ SessionLinks({x})
  /\ UNCHANGED <<events, speakers, bios>>
  /\ Accept([op |-> "DeleteSession", id |-> x])

\* A delete cascade on Speaker.sessions as well: the Speaker's Sessions go too.
DeleteSpeaker_cascade_sessions(p) ==
  /\ p \in DOMAIN speakers
  /\ speakers' = Remove(speakers, {p})
  /\ bios' = Remove(bios, Speaker_bio(p))
  /\ sessions' = Remove(sessions, Speaker_sessions(p))
  /\ session_speakers' = (session_speakers \ SpeakerLinks(p)) \ SessionLinks(Speaker_sessions(p))
  /\ UNCHANGED events
  /\ Accept([op |-> "DeleteSpeaker", id |-> p])

\* db.session.delete(speaker): cascade='all, delete-orphan' on Speaker.bio
\* deletes the Bio; the Speaker's join rows go, its Sessions stay.
DeleteSpeaker(p) ==
  /\ p \in DOMAIN speakers
  /\ speakers' = Remove(speakers, {p})
  /\ bios' = Remove(bios, Speaker_bio(p))
  /\ session_speakers' = session_speakers \ SpeakerLinks(p)
  /\ UNCHANGED <<events, sessions>>
  /\ Accept([op |-> "DeleteSpeaker", id |-> p])

DeleteBio(b) ==
  /\ b \in DOMAIN bios
  /\ bios' = Remove(bios, {b})
  /\ UNCHANGED <<events, sessions, speakers, session_speakers>>
  /\ Accept([op |-> "DeleteBio", id |-> b])

(***************************************************************************)
(* Request handlers (server/app.py).                                       *)
(***************************************************************************)
make_response(body, status) == [status |-> status, body |-> body]

NoBio == "No bio available"

\* speaker.bio.bio_text if speaker.bio else ''
bio_text_of_blank(p) ==
  IF Speaker_bio(p) # {}
    THEN bios[CHOOSE b \in Speaker_bio(p) : TRUE].bio_text
    ELSE ""

\* speaker.bio.bio_text or 'No bio available': the fallback taken on the
\* truth value of the text instead of the Bio.
bio_text_of_falsy_text(p) ==
  IF Speaker_bio(p) # {} /\ bios[CHOOSE b \in Speaker_bio(p) : TRUE].bio_text # ""
    THEN bios[CHOOSE b \in Speaker_bio(p) : TRUE].bio_text
    ELSE NoBio

\* speaker.bio.bio_text if speaker.bio else 'No bio available'
bio_text_of(p) ==
  IF Speaker_bio(p) # {}
    THEN bios[CHOOSE b \in Speaker_bio(p) : TRUE].bio_text
    ELSE NoBio

events_list ==
  LET ids == Ascending(DOMAIN events)
  IN [i \in 1..Len(ids) |->
        [id |-> ids[i], name |-> events[ids[i]].name, location |-> events[ids[i]].location]]

sessions_list(e) ==
  LET ids == Ascending(Event_sessions(e))
  IN [i \in 1..Len(ids) |->
        [id |-> ids[i], title |-> sessions[ids[i]].title,
         start_time |-> isoformat(sessions[ids[i]].start_time)]]

all_speakers_list ==
  LET ids == Ascending(DOMAIN speakers)
  IN [i \in 1..Len(ids) |-> [id |-> ids[i], name |-> speakers[ids[i]].name]]

speaker_data(p) == [id |-> p, name |-> speakers[p].name, bio_text |-> bio_text_of(p)]

speakers_list(x) ==
  LET ids == Ascending(Session_speakers(x))
  IN [i \in 1..Len(ids) |-> speaker_data(ids[i])]

get_events ==
  /\ request' = [op |-> "get_events"]
  /\ response' = make_response(events_list, 200)
  /\ UNCHANGED store

\* The handler answering "not found" for an Event without Sessions as well
\* (if not event or not event.sessions).
get_event_sessions_empty_404(id) ==
  /\ request' = [op |-> "get_event_sessions", id |-> id]
  /\ response' = IF id \notin DOMAIN events \/ Event_sessions(id) = {}
                   THEN make_response([error |-> "Event not found"], 404)
                   ELSE make_response(sessions_list(id), 200)
  /\ UNCHANGED store

get_event_sessions(id) ==
  /\ request' = [op |-> "get_event_sessions", id |-> id]
  /\ response' = IF id \notin DOMAIN events
                   THEN make_response([error |-> "Event not found"], 404)
                   ELSE make_response(sessions_list(id), 200)
  /\ UNCHANGED store

get_speakers ==
  /\ request' = [op |-> "get_speakers"]
  /\ response' = make_response(all_speakers_list, 200)
  /\ UNCHANGED store

\* A handler that stores the fallback as the Speaker's Bio before answering.
get_speaker_storing_fallback(id) ==
  /\ request' = [op |-> "get_speaker", id |-> id]
  /\ response' = IF id \notin DOMAIN speakers
                   THEN make_response([error |-> "Speaker not found"], 404)
                   ELSE make_response(speaker_data(id), 200)
  /\ IF id \in DOMAIN speakers /\ Speaker_bio(id) = {} /\ NextId(bios) <= MaxBios
       THEN /\ bios' = Insert(bios, [bio_text |-> NoBio, speaker_id |-> id])
            /\ UNCHANGED <<events, sessions, speakers, session_speakers>>
       ELSE UNCHANGED store

get_speaker(id) ==
  /\ request' = [op |-> "get_speaker", id |-> id]
  /\ response' = IF id \notin DOMAIN speakers
                   THEN make_response([error |-> "Speaker not found"], 404)
                   ELSE make_response(speaker_data(id), 200)
  /\ UNCHANGED store

\* The handler without its "if not session" branch.
get_session_speakers_unchecked(id) ==
  /\ request' = [op |-> "get_session_speakers", id |-> id]
  /\ response' = make_response(speakers_list(id), 200)
  /\ UNCHANGED store

get_session_speakers(id) ==
  /\ request' = [op |-> "get_session_speakers", id |-> id]
  /\ response' = IF id \notin DOMAIN sessions
                   THEN make_response([error |-> "Session not found"], 404)
                   ELSE make_response(speakers_list(id), 200)
  /\ UNCHANGED store

(***************************************************************************)
(* Inputs.                                                                 *)
(***************************************************************************)
Optional(S) == {None} \cup {Some(v) : v \in S}
EventIds == 1..MaxEvents
SessionIds == 1..MaxSessions
SpeakerIds == 1..MaxSpeakers
BioIds == 1..MaxBios
\* <int:id> routes take any non-negative integer; 0 is never a primary key.
EventPathIds == 0..MaxEvents
SessionPathIds == 0..MaxSessions
SpeakerPathIds == 0..MaxSpeakers

Next ==
  \/ \E n \in EventNames, l \in Locations : CreateEvent(n, l)
  \/ \E t \in Titles, st \in StartTimes, e \in Optional(EventIds) : CreateSession(t, st, e)
  \/ \E n \in SpeakerNames : CreateSpeaker(n)
  \/ \E t \in Optional(BioTexts), p \in Optional(SpeakerIds) : CreateBio(t, p)
  \/ \E x \in SessionIds, p \in SpeakerIds : AssociateSpeaker(x, p)
  \/ \E e \in EventIds : DeleteEvent(e)
  \/ \E x \in SessionIds : DeleteSession(x)
  \/ \E p \in SpeakerIds : DeleteSpeaker(p)
  \/ \E b \in BioIds : DeleteBio(b)
  \/ get_events
  \/ \E id \in EventPathIds : get_event_sessions(id)
  \/ get_speakers
  \/ \E id \in SpeakerPathIds : get_speaker(id)
  \/ \E id \in SessionPathIds : get_session_speakers(id)

Spec == Init /\ [][Next]_vars

(***************************************************************************)
(* Reading an ISO-8601 timestamp back (datetime.fromisoformat), used to    *)
(* state what a start_time string denotes.                                 *)
(***************************************************************************)
IsDigit(c) == \E d \in 0..9 : DigitChar(d) = c
DigitVal(c) == CHOOSE d \in 0..9 : DigitChar(d) = c

RECURSIVE ParseInt(_)
ParseInt(cs) ==
  IF cs = <<>> THEN 0
  ELSE 10 * ParseInt(SubSeq(cs, 1, Len(cs) - 1)) + DigitVal(cs[Len(cs)])

AllDigits(cs) == \A i \in 1..Len(cs) : IsDigit(cs[i])

IsISO8601(cs) ==
  /\ Len(cs) \in {19, 26}
  /\ cs[5] = "-" /\ cs[8] = "-" /\ cs[11] = "T" /\ cs[14] = ":" /\ cs[17] = ":"
  /\ AllDigits(SubSeq(cs, 1, 4)) /\ AllDigits(SubSeq(cs, 6, 7))
  /\ AllDigits(SubSeq(cs, 9, 10)) /\ AllDigits(SubSeq(cs, 12, 13))
  /\ AllDigits(SubSeq(cs, 15, 16)) /\ AllDigits(SubSeq(cs, 18, 19))
  /\ Len(cs) = 26 => (cs[20] = "." /\ AllDigits(SubSeq(cs, 21, 26)))

fromisoformat(cs) ==
  DateTime(ParseInt(SubSeq(cs, 1, 4)), ParseInt(SubSeq(cs, 6, 7)),
           ParseInt(SubSeq(cs, 9, 10)), ParseInt(SubSeq(cs, 12, 13)),
           ParseInt(SubSeq(cs, 15, 16)), ParseInt(SubSeq(cs, 18, 19)),
           IF Len(cs) = 26 THEN ParseInt(SubSeq(cs, 21, 26)) ELSE 0)

HandlerOps == {"get_events", "get_event_sessions", "get_speakers", "get_speaker",
               "get_session_speakers"}

(***************************************************************************)
(* Properties.                                                             *)
(***************************************************************************)

\* C1: when an Event e is deleted (ORM delete and commit), no Session whose
\* event_id is e's id remains afterwards, and every Session of any other
\* event_id is still present with the same columns.
C1_EventDeleteCascades ==
  [][\A e \in EventIds :
       DeleteEvent(e) =>
         /\ \A x \in DOMAIN sessions' : sessions'[x].event_id # e
         /\ \A x \in DOMAIN sessions :
              sessions[x].event_id # e =>
                (x \in DOMAIN sessions' /\ sessions'[x] = sessions[x])]_vars

\* An Event was just deleted; Sessions of another, existing Event are stored.
C1_Witness ==
  /\ request.op = "DeleteEvent"
  /\ request.id \notin DOMAIN events
  /\ \E x \in DOMAIN sessions : sessions[x].event_id \in DOMAIN events

\* C2: when a Speaker s is deleted, no Bio of s remains and the sessions
\* table (ids, titles, start_times, event_ids) is unchanged.
C2_SpeakerDeleteKeepsSessions ==
  [][\A p \in SpeakerIds :
       DeleteSpeaker(p) =>
         /\ \A b \in DOMAIN bios' : bios'[b].speaker_id # p
         /\ sessions' = sessions]_vars

\* A Speaker was just deleted; a Session is stored and the Bio table holds no
\* Bio for the deleted id.
C2_Witness ==
  /\ request.op = "DeleteSpeaker"
  /\ request.id \notin DOMAIN speakers
  /\ sessions # <<>>
  /\ bios # <<>>
  /\ \A b \in DOMAIN bios : bios[b].speaker_id # request.id

\* C3: every Session row's event_id is the id of an Event that exists (a
\* Session whose event_id matches no Event is never stored).
C3_SessionsReferenceLiveEvent ==
  \A x \in DOMAIN sessions : sessions[x].event_id \in DOMAIN events

\* C4: no two Bio rows have the same speaker_id and every Bio's speaker_id
\* is the id of an existing Speaker.
C4_BioReferencesLiveUniqueSpeaker ==
  /\ \A b1, b2 \in DOMAIN bios : bios[b1].speaker_id = bios[b2].speaker_id => b1 = b2
  /\ \A b \in DOMAIN bios : bios[b].speaker_id \in DOMAIN speakers

\* The uniqueness half of C4 alone: no two Bio rows share a speaker_id.
BioSpeakerUnique ==
  \A b1, b2 \in DOMAIN bios : bios[b1].speaker_id = bios[b2].speaker_id => b1 = b2

\* The rejection half of C4 alone: creating a Bio for a speaker_id that a
\* Bio row already holds raises IntegrityError and leaves the bios table as
\* it was.
DuplicateBioRejected ==
  [][\A t \in BioTexts, p \in SpeakerIds :
       (CreateBio(Some(t), Some(p)) /\ \E b \in DOMAIN bios : bios[b].speaker_id = p)
         => (bios' = bios /\ response' = IntegrityError)]_vars

\* The deletes keep the references C3 and C4 ask for: a step that is not a
\* create never leaves a Session without its Event or a Bio without its
\* Speaker if there was none before.
DeletesKeepReferences ==
  [][request'.op \notin {"CreateSession", "CreateBio"} =>
       /\ (\A x \in DOMAIN sessions : sessions[x].event_id \in DOMAIN events)
            => (\A x \in DOMAIN sessions' : sessions'[x].event_id \in DOMAIN events')
       /\ (\A b \in DOMAIN bios : bios[b].speaker_id \in DOMAIN speakers)
            => (\A b \in DOMAIN bios' : bios'[b].speaker_id \in DOMAIN speakers')]_vars

\* C5: every (session_id, speaker_id) row of session_speakers references a
\* Session and a Speaker that both exist.
C5_JoinRowsReferenceLiveRows ==
  \A l \in session_speakers : l[1] \in DOMAIN sessions /\ l[2] \in DOMAIN speakers

\* A Speaker or an Event was just deleted and join rows of others remain.
C5_Witness ==
  /\ request.op \in {"DeleteEvent", "DeleteSpeaker"}
  /\ session_speakers # {}
  /\ Cardinality(DOMAIN sessions) + Cardinality(DOMAIN speakers) < MaxSessions + MaxSpeakers

\* C6: GET /speakers/{id} of an existing Speaker answers 200 with exactly
\* {id, name, bio_text}; bio_text is the text of the Speaker's Bio when it
\* has one and "No bio available" when it has none.
C6_SpeakerDetail ==
  (request.op = "get_speaker" /\ request.id \in DOMAIN speakers) =>
    LET bs == {b \in DOMAIN bios : bios[b].speaker_id = request.id}
    IN /\ response.status = 200
       /\ DOMAIN response.body = {"id", "name", "bio_text"}
       /\ response.body.id = request.id
       /\ response.body.name = speakers[request.id].name
       /\ bs = {} => response.body.bio_text = "No bio available"
       /\ bs # {} => \A b \in bs : response.body.bio_text = bios[b].bio_text

\* GET /speakers/{id} answered for a Speaker with a Bio while another Speaker
\* has none.
C6_Witness ==
  /\ request.op = "get_speaker"
  /\ request.id \in DOMAIN speakers
  /\ \E b \in DOMAIN bios : bios[b].speaker_id = request.id /\ bios[b].bio_text # ""
  /\ \E p \in DOMAIN speakers : \A b \in DOMAIN bios : bios[b].speaker_id # p

\* C7: each of the three parameterized endpoints answers 404 with exactly
\* its own {error: ...} body for an id that matches no row of its table, and
\* 200 for an id that matches one.
C7_NotFound ==
  /\ request.op = "get_event_sessions" =>
       IF request.id \in DOMAIN events
         THEN response.status = 200
         ELSE response = [status |-> 404, body |-> [error |-> "Event not found"]]
  /\ request.op = "get_speaker" =>
       IF request.id \in DOMAIN speakers
         THEN response.status = 200
         ELSE response = [status |-> 404, body |-> [error |-> "Speaker not found"]]
  /\ request.op = "get_session_speakers" =>
       IF request.id \in DOMAIN sessions
         THEN response.status = 200
         ELSE response = [status |-> 404, body |-> [error |-> "Session not found"]]

\* GET /events/{id}/sessions answered 404 for a positive id that matches no
\* row while another Event exists.
C7_Witness ==
  /\ request.op = "get_event_sessions"
  /\ request.id \notin DOMAIN events
  /\ request.id > 0
  /\ events # <<>>
  /\ response.status = 404

\* C8: GET /events/{id}/sessions of an existing Event lists exactly one
\* {id, title, start_time} record for each Session whose event_id is id, no
\* record of any other Session, and each start_time is an ISO-8601 string
\* that denotes the stored start_time.
C8_EventSessions ==
  (request.op = "get_event_sessions" /\ request.id \in DOMAIN events) =>
    LET body == response.body
        own == {x \in DOMAIN sessions : sessions[x].event_id = request.id}
    IN /\ Len(body) = Cardinality(own)
       /\ \A x \in own : \E i \in 1..Len(body) : body[i].id = x
       /\ \A i \in 1..Len(body) :
            /\ DOMAIN body[i] = {"id", "title", "start_time"}
            /\ body[i].id \in own
            /\ body[i].title = sessions[body[i].id].title
            /\ IsISO8601(body[i].start_time)
            /\ fromisoformat(body[i].start_time) = sessions[body[i].id].start_time

\* The Event asked for has a Session and another Event has one too.
C8_Witness ==
  /\ request.op = "get_event_sessions"
  /\ request.id \in DOMAIN events
  /\ Len(response.body) >= 1
  /\ \E x \in DOMAIN sessions :
       sessions[x].event_id # request.id /\ sessions[x].event_id \in DOMAIN events

\* C9: GET /sessions/{id}/speakers of an existing Session lists exactly one
\* {id, name, bio_text} record per Speaker joined to it, none for any other
\* Speaker; bio_text is the Speaker's Bio text or "No bio available"; a
\* Session with both kinds of Speaker yields both kinds of record.
C9_SessionSpeakers ==
  (request.op = "get_session_speakers" /\ request.id \in DOMAIN sessions) =>
    LET body == response.body
        joined == {p \in DOMAIN speakers : <<request.id, p>> \in session_speakers}
        bioOf(p) == {b \in DOMAIN bios : bios[b].speaker_id = p}
    IN /\ Len(body) = Cardinality(joined)
       /\ \A p \in joined : \E i \in 1..Len(body) : body[i].id = p
       /\ \A i \in 1..Len(body) :
            /\ DOMAIN body[i] = {"id", "name", "bio_text"}
            /\ body[i].id \in joined
            /\ body[i].name = speakers[body[i].id].name
            /\ bioOf(body[i].id) = {} => body[i].bio_text = "No bio available"
            /\ \A b \in bioOf(body[i].id) : body[i].bio_text = bios[b].bio_text
       /\ ((\E p \in joined : bioOf(p) = {}) /\ (\E p \in joined : bioOf(p) # {})) =>
            /\ \E i \in 1..Len(body) : body[i].bio_text = "No bio available"
            /\ \E i \in 1..Len(body) : \E b \in DOMAIN bios :
                 bios[b].speaker_id = body[i].id /\ body[i].bio_text = bios[b].bio_text

\* The Session asked for has a Speaker with a Bio and one without, and a
\* further Session has fewer Speakers.
C9_Witness ==
  /\ request.op = "get_session_speakers"
  /\ request.id \in DOMAIN sessions
  /\ \E p, q \in DOMAIN speakers :
       /\ <<request.id, p>> \in session_speakers
       /\ <<request.id, q>> \in session_speakers
       /\ \E b \in DOMAIN bios : bios[b].speaker_id = p
       /\ \A b \in DOMAIN bios : bios[b].speaker_id # q
  /\ Len(response.body) = 2

\* C10: a step of any of the five handlers leaves the four tables and the
\* join table unchanged, and the same request repeated on the same store
\* gets the same response.
C10_HandlersReadOnly ==
  [][/\ request'.op \in HandlerOps => store' = store
     /\ (request'.op \in HandlerOps /\ request' = request /\ store' = store)
          => response' = response]_vars

\* A handler answered 200 on a store in which every table has a row.
C10_Witness ==
  /\ request.op \in HandlerOps
  /\ response.status = 200
  /\ events # <<>> /\ sessions # <<>> /\ speakers # <<>> /\ bios # <<>>
  /\ session_speakers # {}

\* C11: an existing Event without Sessions gets 200 and an empty list from
\* GET /events/{id}/sessions, an existing Session without Speakers gets 200
\* and an empty list from GET /sessions/{id}/speakers, and either endpoint
\* answers 404 only for an id that matches no row of its table.
C11_EmptyIsNotAbsent ==
  /\ request.op = "get_event_sessions" =>
       /\ (request.id \in DOMAIN events
             /\ \A x \in DOMAIN sessions : sessions[x].event_id # request.id)
            => response = [status |-> 200, body |-> <<>>]
       /\ response.status = 404 => request.id \notin DOMAIN events
  /\ request.op = "get_session_speakers" =>
       /\ (request.id \in DOMAIN sessions
             /\ \A p \in DOMAIN speakers : <<request.id, p>> \notin session_speakers)
            => response = [status |-> 200, body |-> <<>>]
       /\ response.status = 404 => request.id \notin DOMAIN sessions

\* GET /events/{id}/sessions answered for an existing Event that has no
\* Session while Sessions of another event_id are stored.
C11_Witness ==
  /\ request.op = "get_event_sessions"
  /\ request.id \in DOMAIN events
  /\ sessions # <<>>
  /\ \A x \in DOMAIN sessions : sessions[x].event_id # request.id
  /\ response.status = 200

\* The bio_text records a response carries: the one of GET /speakers/{id},
\* each of GET /sessions/{id}/speakers (for 200 responses of the two).
BioTextRecords ==
  IF request.op = "get_speaker" /\ request.id \in DOMAIN speakers
    THEN {response.body}
  ELSE IF request.op = "get_session_speakers" /\ request.id \in DOMAIN sessions
    THEN {response.body[i] : i \in 1..Len(response.body)}
  ELSE {}

\* C12: for a Speaker whose Bio has the empty bio_text, GET /speakers/{id}
\* and GET /sessions/{id}/speakers give bio_text "" and not "No bio
\* available", and "No bio available" is given only for a Speaker that has
\* no Bio row.
C12_SentinelOnlyWithoutBio ==
  \A r \in BioTextRecords :
    /\ \A b \in DOMAIN bios :
         (bios[b].speaker_id = r.id /\ bios[b].bio_text = "")
           => (r.bio_text = "" /\ r.bio_text # "No bio available")
    /\ r.bio_text = "No bio available"
         => \A b \in DOMAIN bios : bios[b].speaker_id # r.id

\* C12 as amended: the same, except that "No bio available" is also given
\* for a Speaker whose Bio's bio_text is itself that string; for a Speaker
\* without a Bio row it is always given.
C12_EmptyBioIsNotTheSentinel ==
  \A r \in BioTextRecords :
    /\ \A b \in DOMAIN bios :
         (bios[b].speaker_id = r.id /\ bios[b].bio_text = "")
           => (r.bio_text = "" /\ r.bio_text # "No bio available")
    /\ r.bio_text = "No bio available"
         => \A b \in DOMAIN bios :
              bios[b].speaker_id = r.id => bios[b].bio_text = "No bio available"
    /\ (\A b \in DOMAIN bios : bios[b].speaker_id # r.id)
         => r.bio_text = "No bio available"

\* GET /sessions/{id}/speakers answered for a Session with a Speaker whose
\* Bio has the empty text and a Speaker without a Bio.
C12_Witness ==
  /\ request.op = "get_session_speakers"
  /\ request.id \in DOMAIN sessions
  /\ \E i, j \in 1..Len(response.body) :
       /\ \E b \in DOMAIN bios :
            bios[b].speaker_id = response.body[i].id /\ bios[b].bio_text = ""
       /\ \A b \in DOMAIN bios : bios[b].speaker_id # response.body[j].id
       /\ response.body[i].bio_text # response.body[j].bio_text

====
